---- MODULE Spec2Model ----
(***************************************************************************)
(* Telegram -> Discord relay of TediCross: the long-polling update getter  *)
(* (updategetter.js), the event classification it performs, the message    *)
(* handler wrapper (createMessageHandler) and the text / file / edit       *)
(* handlers set up by setup().                                             *)
(*                                                                         *)
(* JavaScript runs every callback to completion: one action of this model  *)
(* is one such run, from the settling of an awaited promise up to the next *)
(* await of every function that run enters.                                *)
(***************************************************************************)
EXTENDS Integers, Sequences, FiniteSets, TLC

\* ------------------------------------------------------------------ bounds
\* Largest update id the source platform hands out.
MaxId == 2
\* Number of updates the steady-state loop receives in one run.
MaxUpdates == 2
\* Largest number of updates in one getUpdates answer.
MaxBatch == MaxUpdates
\* Largest number of chunks a download stream delivers.
MaxChunks == 2

\* ----------------------------------------------------------- environment
\* Chats known to the source platform.
Chats == {1, 2}
\* The usual configuration: chat 1 has a bridge, chat 2 has none.
BridgedChats == {1}
\* A configuration with a bridge for both chats.
AllBridged == {1, 2}
\* The name getMe answers with.
BotUsername == "TediBot"
\* Message texts the source platform delivers.
Texts == {"hello", "@TediBot ChatInfo"}
PrivateBotText == "This is an instance of a TediCross bot"

\* The chunks a download stream delivers, each a sequence of bytes.
Chunks == {<<"A", "B">>, <<"C", "D">>}
\* The files of up to n chunks.
Files(n) == UNION {[1..k -> Chunks] : k \in 0..n}
\* A file that arrives in one chunk.
OneChunkFile == <<<<"A", "B">>>>

\* Telegram message ids.
MsgIds == {1, 2}
UpdateIds == 0..MaxId

VARIABLES
    bridgeMap,       \* Application.bridgeMap: the chats that have a bridge
    fileContents,    \* the files Telegram serves
    skipOldMessages, \* Application.settings.telegram.skipOldMessages
    phase,           \* which getUpdates is outstanding: "clearing", "polling"; "dead": none
    offset,          \* updateGetter's `offset`
    reqOffset,       \* the offset passed to the outstanding getUpdates
    runPromise,      \* the promise updateGetter() returned
    fetches,         \* number of getUpdates calls outstanding
    \* history of the poller
    lastFailed,      \* the last getUpdates that completed failed
    cleared,         \* update ids seen by clearInitialUpdates
    observed,        \* update ids seen by fetchUpdates
    firstSteadyReq,  \* offset of the first getUpdates of fetchUpdates, -1 before it
    \* the bots
    tgReady,         \* tgBot.ready, the promise of getMe
    tgMe,            \* tgBot.me is set
    dcReady,         \* dcBot.ready
    \* handlers and what they did, per update id
    received,        \* the update fetchUpdates received under each id
    handlers,        \* the listener invocation of each dispatched update
    emitted,         \* events emitted for each update, in order
    tgSent,          \* tgBot.sendMessage calls caused by each update
    tgFileReqs,      \* tgBot.getFile calls caused by each update
    dcCalls,         \* Discord calls caused by each update
    dcReturned,      \* id of the Discord message the send of each update returned
    messageMap,      \* MessageMap, TELEGRAM_TO_DISCORD direction
    mapInserts,      \* messageMap.insert calls caused by each update
    emitLog,         \* update ids in the order of emitter.emit
    escaped,         \* errors no catch took: uncaught or unhandled rejections
    \* event classification on its own
    rUpdate, rEmitted, rDone

envVars == <<bridgeMap, fileContents>>
pollerVars == <<skipOldMessages, phase, offset, reqOffset, runPromise, fetches>>
historyVars == <<lastFailed, cleared, observed, firstSteadyReq>>
botVars == <<tgReady, tgMe, dcReady>>
handlerVars == <<received, handlers, emitted, tgSent, tgFileReqs, dcCalls, dcReturned,
                 messageMap, mapInserts, emitLog, escaped>>
routerVars == <<rUpdate, rEmitted, rDone>>
vars == <<envVars, pollerVars, historyVars, botVars, handlerVars, routerVars>>

\* ------------------------------------------------------ updates, messages
\* The payload fields fetchUpdates looks at, in the order it looks at them.
MessageFields == {"text", "photo", "document", "voice", "audio", "video", "sticker"}

\* An absent member of an update (undefined in the source).
NoMessage == [defined |-> FALSE, fields |-> {}, chat |-> 0, message_id |-> 0, text |-> ""]

Message(fs, c, m, t) ==
    [defined |-> TRUE, fields |-> fs, chat |-> c, message_id |-> m, text |-> t]

Update(id, msg, post, edited) ==
    [update_id |-> id, message |-> msg, channel_post |-> post, edited_message |-> edited]

\* String.prototype.toLowerCase on the texts of the model.
ToLower(s) ==
    CASE s = "@TediBot ChatInfo" -> "@tedibot chatinfo"
      [] s = "@TediBot chatinfo" -> "@tedibot chatinfo"
      [] s = "TediBot" -> "tedibot"
      [] OTHER -> s

\* `@${tgBot.me.username} chatinfo`
ChatInfoCommand(username) ==
    CASE username = "TediBot" -> "@TediBot chatinfo"
      [] OTHER -> "@? chatinfo"

\* messageConverter(...).composed: the sender's name in bold, then the text.
Composed(message) == <<"**user**", message.text>>

\* ------------------------------------------------------------ EventRouter
Event(name, message) == [event |-> name, message |-> message]

\* Mutant: the sticker is looked at before the photo.
EventsOf_StickerFirst(update) ==
    IF update.message.defined \/ update.channel_post.defined
    THEN LET message == IF update.message.defined THEN update.message
                        ELSE update.channel_post
         IN  IF "text" \in message.fields THEN <<Event("text", message)>>
             ELSE IF "sticker" \in message.fields THEN <<Event("sticker", message)>>
             ELSE IF "photo" \in message.fields THEN <<Event("photo", message)>>
             ELSE IF "document" \in message.fields THEN <<Event("document", message)>>
             ELSE IF "voice" \in message.fields THEN <<Event("voice", message)>>
             ELSE IF "audio" \in message.fields THEN <<Event("audio", message)>>
             ELSE IF "video" \in message.fields THEN <<Event("video", message)>>
             ELSE <<>>
    ELSE IF update.edited_message.defined
         THEN <<Event("messageEdit", update.edited_message)>>
         ELSE <<>>

\* The events fetchUpdates emits for one update, in order (lines 381-409).
EventsOf(update) ==
    IF update.message.defined \/ update.channel_post.defined
    THEN LET message == IF update.message.defined THEN update.message
                        ELSE update.channel_post
         IN  IF "text" \in message.fields THEN <<Event("text", message)>>
             ELSE IF "photo" \in message.fields THEN <<Event("photo", message)>>
             ELSE IF "document" \in message.fields THEN <<Event("document", message)>>
             ELSE IF "voice" \in message.fields THEN <<Event("voice", message)>>
             ELSE IF "audio" \in message.fields THEN <<Event("audio", message)>>
             ELSE IF "voice" \in message.fields THEN <<Event("voice", message)>>
             ELSE IF "video" \in message.fields THEN <<Event("video", message)>>
             ELSE IF "sticker" \in message.fields THEN <<Event("sticker", message)>>
             ELSE <<>>
    ELSE IF update.edited_message.defined
         THEN <<Event("messageEdit", update.edited_message)>>
         ELSE <<>>

\* Mutant: the offset is set to the update's id, without the + 1.
OffsetAfter_NoIncrement(off, updates) ==
    IF updates = <<>> THEN off ELSE updates[Len(updates)].update_id

\* `offset` after the forEach over one answer: every update assigns it (line 378).
RECURSIVE OffsetAfter(_, _)
OffsetAfter(off, updates) ==
    IF updates = <<>> THEN off
    ELSE OffsetAfter(Head(updates).update_id + 1, Tail(updates))

\* --------------------------------------------------- createMessageHandler
\* Application.bridgeMap.has("telegram", chat)
HasBridge(chat) == chat \in bridgeMap

\* The condition of line 94.
IsChatInfoRequest(me, message) ==
    /\ "text" \in message.fields
    /\ me
    /\ ToLower(message.text) = ToLower(ChatInfoCommand(BotUsername))

NoHandler ==
    [pc |-> "none", event |-> "", message |-> NoMessage, target |-> 0,
     file |-> <<>>, stream |-> <<>>, buffers |-> <<>>]

\* The wrapped function as far as its first await: every handler of setup()
\* first awaits dcBot.ready (line 157; line 43, entered from line 172; line 263).
Started(event, message) ==
    [pc |-> "awaitReady", event |-> event, message |-> message, target |-> 0,
     file |-> <<>>, stream |-> <<>>, buffers |-> <<>>]

Reply(chat, kind, text) == [chat_id |-> chat, kind |-> kind, text |-> text]

\* Mutant: the bridge of the chat is not asked for.
Listener_NoBridgeCheck(me, ev) ==
    IF IsChatInfoRequest(me, ev.message)
    THEN [replies |-> <<Reply(ev.message.chat, "chatinfo", <<"chatID: ", ev.message.chat>>)>>,
          handler |-> NoHandler]
    ELSE [replies |-> <<>>, handler |-> Started(ev.event, ev.message)]

\* One listener invocation (lines 93-125): the sendMessage calls it makes and
\* the handler it starts.
Listener(me, ev) ==
    IF IsChatInfoRequest(me, ev.message)
    THEN [replies |-> <<Reply(ev.message.chat, "chatinfo", <<"chatID: ", ev.message.chat>>)>>,
          handler |-> NoHandler]
    ELSE IF ~HasBridge(ev.message.chat)
         THEN [replies |-> <<Reply(ev.message.chat, "private", <<PrivateBotText>>)>>,
               handler |-> NoHandler]
         ELSE [replies |-> <<>>, handler |-> Started(ev.event, ev.message)]

\* emitter.emit for the events of one update: listeners run synchronously.
RECURSIVE EmitAll(_, _, _, _)
EmitAll(me, id, events, st) ==
    IF events = <<>> THEN st
    ELSE LET r == Listener(me, Head(events))
             st1 == [handlers |-> IF r.handler.pc = "none" THEN st.handlers
                                  ELSE [st.handlers EXCEPT ![id] = r.handler],
                     emitted |-> [st.emitted EXCEPT ![id] = Append(@, Head(events).event)],
                     tgSent |-> [st.tgSent EXCEPT ![id] = @ \o r.replies],
                     emitLog |-> Append(st.emitLog, id)]
         IN  EmitAll(me, id, Tail(events), st1)

\* Mutant: the forEach goes through the answer from its end.
RECURSIVE DispatchAll_Reversed(_, _, _)
DispatchAll_Reversed(me, updates, st) ==
    IF updates = <<>> THEN st
    ELSE DispatchAll_Reversed(me, SubSeq(updates, 1, Len(updates) - 1),
                              EmitAll(me, updates[Len(updates)].update_id,
                                      EventsOf(updates[Len(updates)]), st))

\* The forEach of fetchUpdates over one answer (lines 375-410).
RECURSIVE DispatchAll(_, _, _)
DispatchAll(me, updates, st) ==
    IF updates = <<>> THEN st
    ELSE DispatchAll(me, Tail(updates),
                     EmitAll(me, Head(updates).update_id, EventsOf(Head(updates)), st))

\* ------------------------------------------------------- source platform
Min(a, b) == IF a < b THEN a ELSE b
Max(S) == CHOOSE x \in S : \A y \in S : y <= x
\* The members of a set of numbers in rising order.
RECURSIVE Ascending(_)
Ascending(S) ==
    IF S = {} THEN <<>>
    ELSE LET lo == CHOOSE x \in S : \A y \in S : x <= y
         IN  <<lo>> \o Ascending(S \ {lo})
Last(s) == s[Len(s)]
Range(s) == {s[i] : i \in 1..Len(s)}

\* getUpdates answers with updates of strictly increasing ids, none below the
\* requested offset.
RECURSIVE IncSeqs(_, _)
IncSeqs(lo, n) ==
    IF n = 0 THEN {<<>>}
    ELSE {<<>>} \cup UNION {{<<a>> \o s : s \in IncSeqs(a + 1, n - 1)} : a \in lo..MaxId}

NoUpdate == [update_id |-> -1, message |-> NoMessage, channel_post |-> NoMessage,
             edited_message |-> NoMessage]

\* The updates the source platform delivers under one id: texts and edits of
\* the bridged chat, the chat-info command in both chats, a text of the
\* unbridged chat, a photo, and an update of a kind fetchUpdates ignores.
Payloads(id) ==
    {Update(id, Message({"text"}, 1, m, "hello"), NoMessage, NoMessage) : m \in MsgIds}
    \cup {Update(id, Message({"text"}, c, 1, "@TediBot ChatInfo"), NoMessage, NoMessage) :
            c \in Chats}
    \cup {Update(id, Message({"text"}, 2, 1, "hello"), NoMessage, NoMessage)}
    \cup {Update(id, Message({"photo"}, 1, 1, ""), NoMessage, NoMessage)}
    \cup {Update(id, NoMessage, NoMessage, Message({"text"}, 1, m, "hello")) : m \in MsgIds}
    \cup {Update(id, NoMessage, NoMessage, NoMessage)}

Answers(off, n) ==
    UNION {{b \in [1..Len(ids) -> UNION {Payloads(i) : i \in Range(ids)}] :
                \A k \in 1..Len(ids) : b[k].update_id = ids[k]} : ids \in IncSeqs(off, n)}

IdsOf(updates) == [k \in 1..Len(updates) |-> updates[k].update_id]

\* ------------------------------------------------------------------ Init
\* The state setup() leaves: the first getUpdates and getMe are outstanding.
InitWith(bridges, files) ==
    /\ bridgeMap = bridges
    /\ fileContents = files
    /\ skipOldMessages \in BOOLEAN
    /\ phase = IF skipOldMessages THEN "clearing" ELSE "polling"
    /\ offset = 0
    /\ reqOffset = 0
    /\ runPromise = IF skipOldMessages THEN "pending" ELSE "fulfilled"
    /\ fetches = 1
    /\ lastFailed = FALSE
    /\ cleared = {}
    /\ observed = {}
    /\ firstSteadyReq = IF skipOldMessages THEN -1 ELSE 0
    /\ tgReady = "pending"
    /\ tgMe = FALSE
    /\ dcReady = "pending"
    /\ received = [i \in UpdateIds |-> NoUpdate]
    /\ handlers = [i \in UpdateIds |-> NoHandler]
    /\ emitted = [i \in UpdateIds |-> <<>>]
    /\ tgSent = [i \in UpdateIds |-> <<>>]
    /\ tgFileReqs = [i \in UpdateIds |-> 0]
    /\ dcCalls = [i \in UpdateIds |-> <<>>]
    /\ dcReturned = [i \in UpdateIds |-> 0]
    /\ messageMap = [m \in MsgIds |-> 0]
    /\ mapInserts = [i \in UpdateIds |-> <<>>]
    /\ emitLog = <<>>
    /\ escaped = {}

\* One bridge, files of one chunk.
InitProgram == InitWith(BridgedChats, {OneChunkFile})

Init ==
    /\ InitProgram
    /\ rUpdate = NoUpdate
    /\ rEmitted = <<>>
    /\ rDone = TRUE

\* ----------------------------------------------------------- UpdatePoller
\* clearInitialUpdates got a non-empty answer and calls itself (lines 342-346).
ClearMore ==
    /\ phase = "clearing"
    /\ \E ids \in IncSeqs(reqOffset, MaxBatch) \ {<<>>} :
        /\ reqOffset' = Last(ids) + 1
        /\ cleared' = cleared \cup Range(ids)
        /\ lastFailed' = FALSE
    /\ fetches' = (fetches - 1) + 1
    /\ UNCHANGED <<skipOldMessages, phase, offset, runPromise, observed, firstSteadyReq>>
    /\ UNCHANGED <<botVars, handlerVars, routerVars, envVars>>

\* Mutant: the offset clearInitialUpdates returned is not stored.
ClearDone_OffsetLost ==
    /\ phase = "clearing"
    /\ offset' = offset
    /\ phase' = "polling"
    /\ reqOffset' = offset'
    /\ firstSteadyReq' = offset'
    /\ runPromise' = "fulfilled"
    /\ lastFailed' = FALSE
    /\ fetches' = (fetches - 1) + 1
    /\ UNCHANGED <<skipOldMessages, cleared, observed>>
    /\ UNCHANGED <<botVars, handlerVars, routerVars, envVars>>

\* clearInitialUpdates got an empty answer: every level returns the newest
\* offset, updateGetter stores it and starts fetchUpdates (lines 348, 432-444).
ClearDone ==
    /\ phase = "clearing"
    /\ offset' = reqOffset
    /\ phase' = "polling"
    /\ reqOffset' = offset'
    /\ firstSteadyReq' = offset'
    /\ runPromise' = "fulfilled"
    /\ lastFailed' = FALSE
    /\ fetches' = (fetches - 1) + 1
    /\ UNCHANGED <<skipOldMessages, cleared, observed>>
    /\ UNCHANGED <<botVars, handlerVars, routerVars, envVars>>

\* getUpdates of clearInitialUpdates fails: nothing catches it (lines 336, 432).
ClearFail ==
    /\ phase = "clearing"
    /\ phase' = "dead"
    /\ runPromise' = "rejected"
    /\ lastFailed' = TRUE
    /\ fetches' = fetches - 1
    /\ UNCHANGED <<skipOldMessages, offset, reqOffset, cleared, observed, firstSteadyReq>>
    /\ UNCHANGED <<botVars, handlerVars, routerVars, envVars>>

\* Mutant: the answer is taken up only when no handler is under way.
FetchAnswer_AwaitsHandlers ==
    /\ phase = "polling"
    /\ \A i \in UpdateIds : handlers[i].pc \in {"none", "done", "failed"}
    /\ \E updates \in Answers(reqOffset, Min(MaxBatch, MaxUpdates - Cardinality(observed))) :
        LET st == DispatchAll(tgMe, updates,
                              [handlers |-> handlers, emitted |-> emitted, tgSent |-> tgSent,
                               emitLog |-> emitLog])
        IN  /\ offset' = OffsetAfter(offset, updates)
            /\ reqOffset' = offset'
            /\ handlers' = st.handlers
            /\ emitted' = st.emitted
            /\ tgSent' = st.tgSent
            /\ emitLog' = st.emitLog
            /\ received' = [i \in UpdateIds |->
                    IF \E k \in 1..Len(updates) : updates[k].update_id = i
                    THEN updates[CHOOSE k \in 1..Len(updates) : updates[k].update_id = i]
                    ELSE received[i]]
            /\ observed' = observed \cup Range(IdsOf(updates))
            /\ lastFailed' = FALSE
    /\ fetches' = (fetches - 1) + 1
    /\ UNCHANGED <<skipOldMessages, phase, runPromise, cleared, firstSteadyReq>>
    /\ UNCHANGED <<tgFileReqs, dcCalls, dcReturned, messageMap, mapInserts, escaped>>
    /\ UNCHANGED <<botVars, routerVars, envVars>>

\* getUpdates of fetchUpdates answers: the forEach, then fetchUpdates again
\* (lines 372-410, 416).
FetchAnswer ==
    /\ phase = "polling"
    /\ \E updates \in Answers(reqOffset, Min(MaxBatch, MaxUpdates - Cardinality(observed))) :
        LET st == DispatchAll(tgMe, updates,
                              [handlers |-> handlers, emitted |-> emitted, tgSent |-> tgSent,
                               emitLog |-> emitLog])
        IN  /\ offset' = OffsetAfter(offset, updates)
            /\ reqOffset' = offset'
            /\ handlers' = st.handlers
            /\ emitted' = st.emitted
            /\ tgSent' = st.tgSent
            /\ emitLog' = st.emitLog
            /\ received' = [i \in UpdateIds |->
                    IF \E k \in 1..Len(updates) : updates[k].update_id = i
                    THEN updates[CHOOSE k \in 1..Len(updates) : updates[k].update_id = i]
                    ELSE received[i]]
            /\ observed' = observed \cup Range(IdsOf(updates))
            /\ lastFailed' = FALSE
    /\ fetches' = (fetches - 1) + 1
    /\ UNCHANGED <<skipOldMessages, phase, runPromise, cleared, firstSteadyReq>>
    /\ UNCHANGED <<tgFileReqs, dcCalls, dcReturned, messageMap, mapInserts, escaped>>
    /\ UNCHANGED <<botVars, routerVars, envVars>>

\* Mutant: a failed fetch moves the offset on.
FetchFail_Advances ==
    /\ phase = "polling"
    /\ offset' = offset + 1
    /\ reqOffset' = offset'
    /\ lastFailed' = TRUE
    /\ fetches' = (fetches - 1) + 1
    /\ UNCHANGED <<skipOldMessages, phase, runPromise, cleared, observed, firstSteadyReq>>
    /\ UNCHANGED <<botVars, handlerVars, routerVars, envVars>>

\* Mutant: the catch calls fetchUpdates and so does the line after it.
FetchFail_Twice ==
    /\ phase = "polling"
    /\ reqOffset' = offset
    /\ lastFailed' = TRUE
    /\ fetches' = (fetches - 1) + 2
    /\ UNCHANGED <<skipOldMessages, phase, offset, runPromise, cleared, observed,
                   firstSteadyReq>>
    /\ UNCHANGED <<botVars, handlerVars, routerVars, envVars>>

\* getUpdates of fetchUpdates fails: logged, then fetchUpdates again
\* (lines 411-416).
FetchFail ==
    /\ phase = "polling"
    /\ reqOffset' = offset
    /\ lastFailed' = TRUE
    /\ fetches' = (fetches - 1) + 1
    /\ UNCHANGED <<skipOldMessages, phase, offset, runPromise, cleared, observed,
                   firstSteadyReq>>
    /\ UNCHANGED <<botVars, handlerVars, routerVars, envVars>>

\* ------------------------------------------------------------- the bots
\* getMe answers: tgBot.me is set (lines 283-290).
GetMeAnswer ==
    /\ tgReady = "pending"
    /\ tgReady' = "resolved"
    /\ tgMe' = TRUE
    /\ UNCHANGED <<dcReady, pollerVars, historyVars, handlerVars, routerVars, envVars>>

\* getMe fails: logged and passed on, tgBot.me stays unset (lines 291-297).
GetMeFail ==
    /\ tgReady = "pending"
    /\ tgReady' = "rejected"
    /\ UNCHANGED <<tgMe, dcReady, pollerVars, historyVars, handlerVars, routerVars, envVars>>

\* dcBot.ready, a promise: it settles at most once.
DcReadySettle ==
    /\ dcReady = "pending"
    /\ dcReady' \in {"resolved", "rejected"}
    /\ UNCHANGED <<tgReady, tgMe, pollerVars, historyVars, handlerVars, routerVars, envVars>>

\* -------------------------------------------------------------- MessageMap
\* messageMap.insert(TELEGRAM_TO_DISCORD, from, to)
MapInsert(map, from, to) == [map EXCEPT ![from] = to]

\* messageMap.getCorresponding(TELEGRAM_TO_DISCORD, from); 0: no entry, the
\* call throws.
GetCorresponding(map, from) == map[from]

\* --------------------------------------------------------------- handlers
\* The id Discord gives the message it creates for the send of update i.
DiscordId(i) == 101 + i

FileEvents == {"photo", "sticker", "document", "voice", "audio", "video"}

\* bridge.discord.channel of the bridge of a chat
ChannelOf(chat) == <<"channel", chat>>

Call(op, channel, id, content) ==
    [op |-> op, channel |-> channel, id |-> id, content |-> content]

Goto(i, pc) == handlers' = [handlers EXCEPT ![i].pc = pc]

\* What a handler step leaves alone besides the handler variables it names.
HandlerFrame ==
    UNCHANGED <<envVars, pollerVars, historyVars, botVars, routerVars, received, emitted,
                tgSent, emitLog>>

\* dcBot.ready rejected: the await throws into the handler's catch, which logs
\* (lines 162-166, 179-181, 276-279).
ReadyRejected(i) ==
    /\ handlers[i].pc = "awaitReady"
    /\ dcReady = "rejected"
    /\ Goto(i, "failed")
    /\ UNCHANGED <<tgFileReqs, dcCalls, dcReturned, messageMap, mapInserts, escaped>>
    /\ HandlerFrame

\* Mutant: the text handler does not wait for dcBot.ready.
TextSend_NoGate(i) ==
    /\ handlers[i].pc = "awaitReady"
    /\ handlers[i].event = "text"
    /\ dcCalls' = [dcCalls EXCEPT ![i] =
          Append(@, Call("send", ChannelOf(handlers[i].message.chat), 0,
                         Composed(handlers[i].message)))]
    /\ Goto(i, "awaitSend")
    /\ UNCHANGED <<tgFileReqs, dcReturned, messageMap, mapInserts, escaped>>
    /\ HandlerFrame

\* Mutant: a text is sent only when every earlier update's handler has made
\* its Discord call or ended.
TextSend_InOrder(i) ==
    /\ handlers[i].pc = "awaitReady"
    /\ handlers[i].event = "text"
    /\ dcReady = "resolved"
    /\ \A k \in UpdateIds :
          k < i => (dcCalls[k] # <<>> \/ handlers[k].pc \in {"none", "done", "failed"})
    /\ dcCalls' = [dcCalls EXCEPT ![i] =
          Append(@, Call("send", ChannelOf(handlers[i].message.chat), 0,
                         Composed(handlers[i].message)))]
    /\ Goto(i, "awaitSend")
    /\ UNCHANGED <<tgFileReqs, dcReturned, messageMap, mapInserts, escaped>>
    /\ HandlerFrame

\* Text handler, dcBot.ready resolved: send the composed text (line 158).
TextSend(i) ==
    /\ handlers[i].pc = "awaitReady"
    /\ handlers[i].event = "text"
    /\ dcReady = "resolved"
    /\ dcCalls' = [dcCalls EXCEPT ![i] =
          Append(@, Call("send", ChannelOf(handlers[i].message.chat), 0,
                         Composed(handlers[i].message)))]
    /\ Goto(i, "awaitSend")
    /\ UNCHANGED <<tgFileReqs, dcReturned, messageMap, mapInserts, escaped>>
    /\ HandlerFrame

\* Mutant: the insert starts the map anew and keeps only its own entry.
TextSent_Clobbers(i) ==
    /\ handlers[i].pc = "awaitSend"
    /\ dcReturned' = [dcReturned EXCEPT ![i] = DiscordId(i)]
    /\ messageMap' = MapInsert([m \in MsgIds |-> 0], handlers[i].message.message_id,
                               DiscordId(i))
    /\ mapInserts' = [mapInserts EXCEPT ![i] =
          Append(@, <<handlers[i].message.message_id, DiscordId(i)>>)]
    /\ Goto(i, "done")
    /\ UNCHANGED <<tgFileReqs, dcCalls, escaped>>
    /\ HandlerFrame

\* Text handler, the send returned a Discord message: insert the mapping
\* (line 161).
TextSent(i) ==
    /\ handlers[i].pc = "awaitSend"
    /\ dcReturned' = [dcReturned EXCEPT ![i] = DiscordId(i)]
    /\ messageMap' = MapInsert(messageMap, handlers[i].message.message_id, DiscordId(i))
    /\ mapInserts' = [mapInserts EXCEPT ![i] =
          Append(@, <<handlers[i].message.message_id, DiscordId(i)>>)]
    /\ Goto(i, "done")
    /\ UNCHANGED <<tgFileReqs, dcCalls, escaped>>
    /\ HandlerFrame

\* Mutant: the mapping is made although the send failed.
TextSendFail_Inserts(i) ==
    /\ handlers[i].pc = "awaitSend"
    /\ messageMap' = MapInsert(messageMap, handlers[i].message.message_id, DiscordId(i))
    /\ mapInserts' = [mapInserts EXCEPT ![i] =
          Append(@, <<handlers[i].message.message_id, DiscordId(i)>>)]
    /\ Goto(i, "failed")
    /\ UNCHANGED <<tgFileReqs, dcCalls, dcReturned, escaped>>
    /\ HandlerFrame

\* Text handler, the send failed: logged (lines 162-166).
TextSendFail(i) ==
    /\ handlers[i].pc = "awaitSend"
    /\ Goto(i, "failed")
    /\ UNCHANGED <<tgFileReqs, dcCalls, dcReturned, messageMap, mapInserts, escaped>>
    /\ HandlerFrame

\* sendFile, dcBot.ready resolved: ask Telegram for the file (line 46).
FileGetFile(i) ==
    /\ handlers[i].pc = "awaitReady"
    /\ handlers[i].event \in FileEvents
    /\ dcReady = "resolved"
    /\ tgFileReqs' = [tgFileReqs EXCEPT ![i] = @ + 1]
    /\ Goto(i, "awaitGetFile")
    /\ UNCHANGED <<dcCalls, dcReturned, messageMap, mapInserts, escaped>>
    /\ HandlerFrame

\* sendFile, getFile answered: ask for the file stream (lines 49-53).
FileGotFile(i) ==
    /\ handlers[i].pc = "awaitGetFile"
    /\ Goto(i, "awaitStream")
    /\ UNCHANGED <<tgFileReqs, dcCalls, dcReturned, messageMap, mapInserts, escaped>>
    /\ HandlerFrame

\* Buffer.concat
RECURSIVE Concat(_)
Concat(bufs) == IF bufs = <<>> THEN <<>> ELSE Head(bufs) \o Concat(Tail(bufs))

\* sendFile, the stream of one of Telegram's files is there: listen to it
\* (lines 56-65).
FileStreamOpen(i) ==
    /\ handlers[i].pc = "awaitStream"
    /\ \E f \in fileContents :
          handlers' = [handlers EXCEPT ![i].pc = "streaming", ![i].file = f,
                                       ![i].stream = f, ![i].buffers = <<>>]
    /\ UNCHANGED <<tgFileReqs, dcCalls, dcReturned, messageMap, mapInserts, escaped>>
    /\ HandlerFrame

\* Mutant: a chunk is put in front of the chunks that came before it.
FileStreamData_Unshift(i) ==
    /\ handlers[i].pc = "streaming"
    /\ handlers[i].stream # <<>>
    /\ handlers' = [handlers EXCEPT ![i].buffers = <<Head(handlers[i].stream)>> \o @,
                                    ![i].stream = Tail(@)]
    /\ UNCHANGED <<tgFileReqs, dcCalls, dcReturned, messageMap, mapInserts, escaped>>
    /\ HandlerFrame

\* sendFile, the stream's "data" event: the chunk is pushed (lines 59-61).
FileStreamData(i) ==
    /\ handlers[i].pc = "streaming"
    /\ handlers[i].stream # <<>>
    /\ handlers' = [handlers EXCEPT ![i].buffers = Append(@, Head(handlers[i].stream)),
                                    ![i].stream = Tail(@)]
    /\ UNCHANGED <<tgFileReqs, dcCalls, dcReturned, messageMap, mapInserts, escaped>>
    /\ HandlerFrame

\* sendFile, the stream's "error" event before its end: the stream has no
\* listener for it, so the error is thrown where it is emitted, outside every
\* handler; "end" never comes and nothing settles the promise of sendFile
\* (lines 56-79 register "data" and "end" only, the promise has no reject).
FileStreamError(i) ==
    /\ handlers[i].pc = "streaming"
    /\ Goto(i, "hung")
    /\ escaped' = escaped \cup {<<i, "stream error">>}
    /\ UNCHANGED <<tgFileReqs, dcCalls, dcReturned, messageMap, mapInserts>>
    /\ HandlerFrame

\* sendFile, the stream ended after its last chunk: upload the file
\* (lines 65-78).
FileStreamEnd(i) ==
    /\ handlers[i].pc = "streaming"
    /\ handlers[i].stream = <<>>
    /\ dcCalls' = [dcCalls EXCEPT ![i] =
          Append(@, Call("sendFile", ChannelOf(handlers[i].message.chat), 0,
                         Concat(handlers[i].buffers)))]
    /\ Goto(i, "awaitUpload")
    /\ UNCHANGED <<tgFileReqs, dcReturned, messageMap, mapInserts, escaped>>
    /\ HandlerFrame

\* sendFile, the upload returned: the handler's await returns (line 172).
FileUploaded(i) ==
    /\ handlers[i].pc = "awaitUpload"
    /\ dcReturned' = [dcReturned EXCEPT ![i] = DiscordId(i)]
    /\ Goto(i, "done")
    /\ UNCHANGED <<tgFileReqs, dcCalls, messageMap, mapInserts, escaped>>
    /\ HandlerFrame

\* getFile, helperGetFileStream or the upload failed: sendFile rejects and
\* the handler logs (lines 179-181 and the like).
FileFail(i) ==
    /\ handlers[i].pc \in {"awaitGetFile", "awaitStream", "awaitUpload"}
    /\ Goto(i, "failed")
    /\ UNCHANGED <<tgFileReqs, dcCalls, dcReturned, messageMap, mapInserts, escaped>>
    /\ HandlerFrame

\* Mutant: a lookup without entry does not throw, the handler goes on with it.
EditLookup_NoThrow(i) ==
    /\ handlers[i].pc = "awaitReady"
    /\ handlers[i].event = "messageEdit"
    /\ dcReady = "resolved"
    /\ LET dcMessageId == GetCorresponding(messageMap, handlers[i].message.message_id)
       IN  /\ handlers' = [handlers EXCEPT ![i].pc = "awaitFetchMessage",
                                           ![i].target = dcMessageId]
           /\ dcCalls' = [dcCalls EXCEPT ![i] =
                 Append(@, Call("fetchMessage", ChannelOf(handlers[i].message.chat),
                                dcMessageId, <<>>))]
    /\ UNCHANGED <<tgFileReqs, dcReturned, messageMap, mapInserts, escaped>>
    /\ HandlerFrame

\* Edit handler, dcBot.ready resolved: look the message up and fetch the
\* Discord message (lines 266-269); no entry: the lookup throws, logged.
EditLookup(i) ==
    /\ handlers[i].pc = "awaitReady"
    /\ handlers[i].event = "messageEdit"
    /\ dcReady = "resolved"
    /\ LET dcMessageId == GetCorresponding(messageMap, handlers[i].message.message_id)
       IN  IF dcMessageId = 0
           THEN /\ Goto(i, "failed")
                /\ UNCHANGED dcCalls
           ELSE /\ handlers' = [handlers EXCEPT ![i].pc = "awaitFetchMessage",
                                                ![i].target = dcMessageId]
                /\ dcCalls' = [dcCalls EXCEPT ![i] =
                      Append(@, Call("fetchMessage", ChannelOf(handlers[i].message.chat),
                                     dcMessageId, <<>>))]
    /\ UNCHANGED <<tgFileReqs, dcReturned, messageMap, mapInserts, escaped>>
    /\ HandlerFrame

\* Edit handler, the Discord message is there: edit it with the converted
\* text (lines 272-275).
EditFetched(i) ==
    /\ handlers[i].pc = "awaitFetchMessage"
    /\ dcCalls' = [dcCalls EXCEPT ![i] =
          Append(@, Call("edit", ChannelOf(handlers[i].message.chat), handlers[i].target,
                         Composed(handlers[i].message)))]
    /\ Goto(i, "awaitEdit")
    /\ UNCHANGED <<tgFileReqs, dcReturned, messageMap, mapInserts, escaped>>
    /\ HandlerFrame

\* Edit handler, the edit returned (line 275).
EditDone(i) ==
    /\ handlers[i].pc = "awaitEdit"
    /\ Goto(i, "done")
    /\ UNCHANGED <<tgFileReqs, dcCalls, dcReturned, messageMap, mapInserts, escaped>>
    /\ HandlerFrame

\* Edit handler, fetchMessage or edit failed: logged (lines 276-279).
EditFail(i) ==
    /\ handlers[i].pc \in {"awaitFetchMessage", "awaitEdit"}
    /\ Goto(i, "failed")
    /\ UNCHANGED <<tgFileReqs, dcCalls, dcReturned, messageMap, mapInserts, escaped>>
    /\ HandlerFrame

\* ------------------------------------------------------------------- Next
\* The steps of the runs in which every error is taken by a catch; FaultNext
\* below adds the errors that are taken by none.
Next ==
    \/ ClearMore
    \/ ClearDone
    \/ ClearFail
    \/ FetchAnswer
    \/ FetchFail
    \/ GetMeAnswer
    \/ GetMeFail
    \/ DcReadySettle
    \/ \E i \in UpdateIds : ReadyRejected(i)
    \/ \E i \in UpdateIds : TextSend(i)
    \/ \E i \in UpdateIds : TextSent(i)
    \/ \E i \in UpdateIds : TextSendFail(i)
    \/ \E i \in UpdateIds : FileGetFile(i)
    \/ \E i \in UpdateIds : FileGotFile(i)
    \/ \E i \in UpdateIds : FileStreamOpen(i)
    \/ \E i \in UpdateIds : FileStreamData(i)
    \/ \E i \in UpdateIds : FileStreamEnd(i)
    \/ \E i \in UpdateIds : FileUploaded(i)
    \/ \E i \in UpdateIds : FileFail(i)
    \/ \E i \in UpdateIds : EditLookup(i)
    \/ \E i \in UpdateIds : EditFetched(i)
    \/ \E i \in UpdateIds : EditDone(i)
    \/ \E i \in UpdateIds : EditFail(i)

Spec == Init /\ [][Next]_vars

\* ------------------------------------------- errors that reach no catch
\* A sendMessage of the listener is rejected by Telegram: the call is not
\* awaited and its promise has no catch (lines 96-99, 106-113), the try
\* around it takes synchronous throws only: an unhandled rejection.
TgSendRejected(i) ==
    /\ tgSent[i] # <<>>
    /\ <<i, "sendMessage rejected">> \notin escaped
    /\ escaped' = escaped \cup {<<i, "sendMessage rejected">>}
    /\ UNCHANGED <<handlers, tgFileReqs, dcCalls, dcReturned, messageMap, mapInserts>>
    /\ HandlerFrame

\* The steps of Next and the errors no handler's catch is reached by.
FaultNext ==
    \/ Next
    \/ \E i \in UpdateIds : TgSendRejected(i)
    \/ \E i \in UpdateIds : FileStreamError(i)

FaultSpec == Init /\ [][FaultNext]_vars

\* ------------------------------------------------- the file relay alone
\* The updates whose photos are relayed side by side.
Jobs == {0, 1}

PhotoUpdate(id) == Update(id, Message({"photo"}, 1, 1, ""), NoMessage, NoMessage)

\* The state after fetchUpdates took an answer with one photo for each job:
\* every job's sendFile stands at `await dcBot.ready` (line 43), the next
\* getUpdates is outstanding. Telegram serves every file of up to MaxChunks
\* chunks.
InitFile ==
    /\ bridgeMap = BridgedChats
    /\ fileContents = Files(MaxChunks)
    /\ skipOldMessages = FALSE
    /\ phase = "polling"
    /\ offset = Max(Jobs) + 1
    /\ reqOffset = offset
    /\ runPromise = "fulfilled"
    /\ fetches = 1
    /\ lastFailed = FALSE
    /\ cleared = {}
    /\ observed = Jobs
    /\ firstSteadyReq = 0
    /\ tgReady = "pending"
    /\ tgMe = FALSE
    /\ dcReady = "pending"
    /\ received = [i \in UpdateIds |-> IF i \in Jobs THEN PhotoUpdate(i) ELSE NoUpdate]
    /\ handlers = [i \in UpdateIds |->
                      IF i \in Jobs THEN Started("photo", PhotoUpdate(i).message)
                      ELSE NoHandler]
    /\ emitted = [i \in UpdateIds |-> IF i \in Jobs THEN <<"photo">> ELSE <<>>]
    /\ tgSent = [i \in UpdateIds |-> <<>>]
    /\ tgFileReqs = [i \in UpdateIds |-> 0]
    /\ dcCalls = [i \in UpdateIds |-> <<>>]
    /\ dcReturned = [i \in UpdateIds |-> 0]
    /\ messageMap = [m \in MsgIds |-> 0]
    /\ mapInserts = [i \in UpdateIds |-> <<>>]
    /\ emitLog = Ascending(Jobs)
    /\ escaped = {}
    /\ rUpdate = NoUpdate
    /\ rEmitted = <<>>
    /\ rDone = TRUE

\* The steps of the file handlers and of the promise they wait for.
FileNext ==
    \/ DcReadySettle
    \/ \E i \in UpdateIds : ReadyRejected(i)
    \/ \E i \in UpdateIds : FileGetFile(i)
    \/ \E i \in UpdateIds : FileGotFile(i)
    \/ \E i \in UpdateIds : FileStreamOpen(i)
    \/ \E i \in UpdateIds : FileStreamData(i)
    \/ \E i \in UpdateIds : FileStreamError(i)
    \/ \E i \in UpdateIds : FileStreamEnd(i)
    \/ \E i \in UpdateIds : FileUploaded(i)
    \/ \E i \in UpdateIds : FileFail(i)

FileSpec == InitFile /\ [][FileNext]_vars

\* ------------------------------------------------ a bridge for each chat
InitTwoBridges ==
    /\ InitWith(AllBridged, {OneChunkFile})
    /\ rUpdate = NoUpdate
    /\ rEmitted = <<>>
    /\ rDone = TRUE

TwoBridgeSpec == InitTwoBridges /\ [][Next]_vars

\* ------------------------------------------- event classification alone
\* Updates with every subset of the payload fields, as a message and as a
\* channel post; edited messages; an update of another kind.
RouterUpdates ==
    {Update(0, Message(fs, 1, 1, IF "text" \in fs THEN "hello" ELSE ""), NoMessage, NoMessage) :
        fs \in SUBSET MessageFields}
    \cup {Update(0, NoMessage, Message(fs, 1, 1, IF "text" \in fs THEN "hello" ELSE ""), NoMessage) :
        fs \in SUBSET MessageFields}
    \cup {Update(0, NoMessage, NoMessage, Message(fs, 1, 1, IF "text" \in fs THEN "hello" ELSE "")) :
        fs \in {{}, {"text"}, {"photo"}}}
    \cup {Update(0, NoMessage, NoMessage, NoMessage)}

InitRouter ==
    /\ InitProgram
    /\ rUpdate \in RouterUpdates
    /\ rEmitted = <<>>
    /\ rDone = FALSE

\* The body of the forEach for one update (lines 375-410): the names of the
\* events it emits.
Route ==
    /\ ~rDone
    /\ rEmitted' = [k \in 1..Len(EventsOf(rUpdate)) |-> EventsOf(rUpdate)[k].event]
    /\ rDone' = TRUE
    /\ UNCHANGED <<rUpdate, envVars, pollerVars, historyVars, botVars, handlerVars>>

RouterNext == Route

RouterSpec == InitRouter /\ [][RouterNext]_vars

\* ----------------------------------------------------------------- claims

\* C1: the cursor never decreases; in the steady-state loop it is
\* max(update ids of the batch) + 1 after a non-empty batch and unchanged
\* after an empty batch or a failed fetch.
C1_CursorMonotonic ==
    [][/\ offset' >= offset
       /\ phase = "polling" =>
            IF observed' # observed
            THEN offset' = Max(observed' \ observed) + 1
            ELSE offset' = offset]_vars

\* A batch with a gap in its ids was consumed, then a fetch failed.
C1_Witness ==
    /\ phase = "polling"
    /\ lastFailed
    /\ observed = {0, 2}
    /\ offset = 3

\* C2: a fetch error, in backlog clearing or in the steady-state loop, is not
\* propagated to the caller of updateGetter, and after it a fetch is issued
\* again.
C2_FetchErrorsNonFatal ==
    lastFailed => (runPromise # "rejected" /\ phase \in {"clearing", "polling"})

\* C3: in the steady-state loop the fetch issued after a failed fetch uses
\* the cursor of the failed one, and it is issued.
C3_RetrySameCursor ==
    [][phase = "polling" /\ lastFailed' =>
            /\ phase' = "polling"
            /\ reqOffset' = reqOffset
            /\ offset' = offset]_vars

\* A fetch with a cursor past 0 failed and the same fetch is outstanding.
C3_Witness ==
    /\ phase = "polling"
    /\ lastFailed
    /\ reqOffset > 0
    /\ reqOffset = offset

NothingDispatched(i) ==
    /\ received[i] = NoUpdate
    /\ emitted[i] = <<>>
    /\ handlers[i].pc = "none"
    /\ tgSent[i] = <<>>

\* C4: backlog clearing ends with the first empty answer; no update it
\* fetched is dispatched; the first fetch of the steady-state loop uses
\* (last cleared id) + 1; the steady-state loop sees no cleared id.
C4_BacklogClearing ==
    /\ [](phase = "clearing" => \A i \in UpdateIds : NothingDispatched(i))
    /\ []((skipOldMessages /\ phase = "polling") =>
            /\ firstSteadyReq = (IF cleared = {} THEN 0 ELSE Max(cleared) + 1)
            /\ cleared \cap observed = {}
            /\ \A i \in cleared : NothingDispatched(i))
    /\ [][phase = "clearing" /\ phase' # "clearing" /\ ~lastFailed' =>
            /\ phase' = "polling"
            /\ cleared' = cleared
            /\ offset' = reqOffset
            /\ reqOffset' = reqOffset]_vars

\* Clearing saw updates, ended, and the steady-state loop got an update.
C4_Witness ==
    /\ skipOldMessages
    /\ phase = "polling"
    /\ cleared # {}
    /\ observed # {}

\* The payload fields in the order of the claim, and the event of each.
FieldPriority ==
    <<"text", "photo", "document", "voice", "audio", "video", "sticker", "edited-message">>

EventOfField(f) == IF f = "edited-message" THEN "messageEdit" ELSE f

PresentFields(update) ==
    (IF update.message.defined THEN update.message.fields ELSE {})
    \cup (IF update.channel_post.defined THEN update.channel_post.fields ELSE {})
    \cup (IF update.edited_message.defined THEN {"edited-message"} ELSE {})

FirstPresent(update) ==
    FieldPriority[CHOOSE k \in 1..Len(FieldPriority) :
        /\ FieldPriority[k] \in PresentFields(update)
        /\ \A j \in 1..(k - 1) : FieldPriority[j] \notin PresentFields(update)]

\* C5: an update leads to at most one event, that of the first field present
\* in the order text, photo, document, voice, audio, video, sticker,
\* edited-message; to none when no such field is present.
C5_Classification ==
    rDone =>
        IF PresentFields(rUpdate) = {}
        THEN rEmitted = <<>>
        ELSE rEmitted = <<EventOfField(FirstPresent(rUpdate))>>

\* A channel post with a sticker and a video was classified as a video.
C5_Witness ==
    /\ rDone
    /\ rUpdate.channel_post.defined
    /\ rUpdate.channel_post.fields = {"sticker", "video"}
    /\ rEmitted = <<"video">>

\* The message of the update received under id i that the listener got.
MessageOf(i) ==
    IF received[i].message.defined THEN received[i].message
    ELSE IF received[i].channel_post.defined THEN received[i].channel_post
    ELSE received[i].edited_message

\* The text of a message is the chat-info command, whatever its case.
IsChatInfoText(message) ==
    /\ "text" \in message.fields
    /\ ToLower(message.text) = "@tedibot chatinfo"

NoRelay(i) ==
    /\ handlers[i].pc = "none"
    /\ dcCalls[i] = <<>>
    /\ dcReturned[i] = 0
    /\ tgFileReqs[i] = 0
    /\ mapInserts[i] = <<>>

\* C6: an update from a chat without bridge that is not the chat-info command
\* leads to exactly one sendMessage, to that chat, to no handler invocation,
\* to no Discord call and to no insert into the message map.
C6_AuthorizationGate ==
    \A i \in UpdateIds :
        (/\ emitted[i] # <<>>
         /\ MessageOf(i).chat \notin BridgedChats
         /\ ~IsChatInfoText(MessageOf(i)))
        => /\ tgSent[i] = <<Reply(MessageOf(i).chat, "private", <<PrivateBotText>>)>>
           /\ NoRelay(i)

\* A text of the unbridged chat was answered, and the gate has resolved since.
C6_Witness ==
    \E i \in UpdateIds :
        /\ emitted[i] = <<"text">>
        /\ MessageOf(i).chat = 2
        /\ MessageOf(i).text = "hello"
        /\ Len(tgSent[i]) = 1
        /\ dcReady = "resolved"

\* C7: a text that is the chat-info command is answered with the chat id and
\* nothing else happens, in every state: it is not relayed and the chat gets
\* no `private bot' reply.
C7_ChatInfoBypass ==
    \A i \in UpdateIds :
        (emitted[i] # <<>> /\ IsChatInfoText(MessageOf(i)))
        => /\ tgSent[i] = <<Reply(MessageOf(i).chat, "chatinfo",
                                  <<"chatID: ", MessageOf(i).chat>>)>>
           /\ NoRelay(i)

C9_NoMappingOnFailure ==
    /\ \A i \in UpdateIds :
          /\ mapInserts[i] # <<>> =>
                /\ handlers[i].event = "text"
                /\ handlers[i].pc = "done"
                /\ dcReturned[i] # 0
                /\ mapInserts[i] = <<<<handlers[i].message.message_id, dcReturned[i]>>>>
          /\ handlers[i].pc = "failed" => mapInserts[i] = <<>>
    /\ \A m \in MsgIds :
          messageMap[m] # 0 =>
              \E i \in UpdateIds :
                  /\ handlers[i].event = "text"
                  /\ handlers[i].pc = "done"
                  /\ handlers[i].message.message_id = m
                  /\ dcReturned[i] = messageMap[m]

\* The send of one text failed, the send of another returned: only the
\* second has an entry.
C9_Witness ==
    \E i, j \in UpdateIds :
        /\ handlers[i].event = "text"
        /\ handlers[i].pc = "failed"
        /\ dcCalls[i] # <<>>
        /\ messageMap[handlers[i].message.message_id] = 0
        /\ handlers[j].event = "text"
        /\ handlers[j].pc = "done"
        /\ messageMap[handlers[j].message.message_id] = dcReturned[j]

\* C10: while dcBot.ready has not resolved there is no Discord call and no
\* getFile; every started handler waits as long as it is pending; once
\* resolved it stays resolved, and it resolves from pending only.
C10_ReadinessGate ==
    /\ [](dcReady # "resolved" =>
            \A i \in UpdateIds :
                dcCalls[i] = <<>> /\ tgFileReqs[i] = 0 /\ dcReturned[i] = 0)
    /\ [](dcReady = "pending" =>
            \A i \in UpdateIds : handlers[i].pc \in {"none", "awaitReady"})
    /\ [][dcReady = "resolved" => dcReady' = "resolved"]_vars
    /\ [][dcReady' = "resolved" => dcReady \in {"pending", "resolved"}]_vars

\* A text handler and a file handler wait for the gate.
C10_Witness ==
    \E i, j \in UpdateIds :
        /\ dcReady = "pending"
        /\ handlers[i].event = "text"
        /\ handlers[i].pc = "awaitReady"
        /\ handlers[j].event = "photo"
        /\ handlers[j].pc = "awaitReady"

\* C14: the poller does not wait for handlers: the step that dispatches a
\* batch leaves the next fetch outstanding, with the new cursor, while the
\* handlers it started have not completed; and whatever the handlers do, the
\* outstanding fetch can be answered.
C14_HandlersNotAwaited ==
    /\ [][observed' # observed =>
            /\ phase' = "polling"
            /\ reqOffset' = offset'
            /\ offset' > offset
            /\ \A i \in observed' \ observed : handlers'[i].pc \in {"none", "awaitReady"}]_vars
    /\ [](phase = "polling" => ENABLED FetchAnswer)

\* The gate is unresolved, two handlers wait for it, and the poller has gone
\* on: a later fetch failed and was issued again.
C14_Witness ==
    /\ dcReady = "pending"
    /\ Cardinality({i \in UpdateIds : handlers[i].pc = "awaitReady"}) = 2
    /\ phase = "polling"
    /\ lastFailed
    /\ offset > 1

\* Text handler i is the only text handler of its message id.
OnlyTextOf(i) ==
    \A j \in UpdateIds \ {i} :
        handlers[j].event = "text"
            => handlers[j].message.message_id # handlers[i].message.message_id

\* C17: text handlers of distinct source message ids may interleave in any
\* way: each one whose send returned has made one insert, and the map holds
\* for its source id the id its own send returned.
C17_ConcurrentInserts ==
    \A i \in UpdateIds :
        (handlers[i].event = "text" /\ handlers[i].pc = "done" /\ OnlyTextOf(i))
        => /\ mapInserts[i] = <<<<handlers[i].message.message_id, dcReturned[i]>>>>
           /\ messageMap[handlers[i].message.message_id] = dcReturned[i]
           /\ dcReturned[i] = DiscordId(i)

\* Two texts of distinct message ids were relayed; both have their entry.
C17_Witness ==
    \E i, j \in UpdateIds :
        /\ i # j
        /\ handlers[i].event = "text" /\ handlers[i].pc = "done"
        /\ handlers[j].event = "text" /\ handlers[j].pc = "done"
        /\ handlers[i].message.message_id # handlers[j].message.message_id
        /\ messageMap[handlers[i].message.message_id] = dcReturned[i]
        /\ messageMap[handlers[j].message.message_id] = dcReturned[j]

\* The edit handler of update i found no entry: it failed after the gate
\* resolved without a Discord call.
EditMissed(i) ==
    /\ handlers[i].event = "messageEdit"
    /\ handlers[i].pc = "failed"
    /\ dcCalls[i] = <<>>
    /\ dcReady = "resolved"

\* C18: an edit is dropped for want of an entry only when its message was
\* never dispatched as a text or the relay of that text did not succeed: no
\* edit has missed whose text, dispatched before it, was relayed.
C18_EditMissCause ==
    \A i \in UpdateIds :
        EditMissed(i) =>
            ~\E j \in UpdateIds :
                /\ j < i
                /\ handlers[j].event = "text"
                /\ handlers[j].message.chat = handlers[i].message.chat
                /\ handlers[j].message.message_id = handlers[i].message.message_id
                /\ handlers[j].pc = "done"

\* C15: no handler's Discord send waits for the handler of an earlier update:
\* a text handler the gate has let through can issue its send in whatever
\* state the other handlers are, so a later text can be sent before an
\* earlier photo.
C15_SendsNotOrdered ==
    \A j \in UpdateIds :
        (handlers[j].pc = "awaitReady" /\ handlers[j].event = "text" /\ dcReady = "resolved")
        => ENABLED TextSend(j)

\* A photo was dispatched before a text of the same chat; the send of the
\* text has been issued and has returned, the photo has just been downloaded
\* and its send is still to be issued.
C15_Witness ==
    \E i, j \in UpdateIds :
        /\ i < j
        /\ emitLog = <<i, j>>
        /\ handlers[i].event = "photo"
        /\ handlers[j].event = "text"
        /\ handlers[i].message.chat = handlers[j].message.chat
        /\ handlers[i].pc = "streaming"
        /\ handlers[i].stream = <<>>
        /\ dcCalls[i] = <<>>
        /\ Len(dcCalls[j]) = 1
        /\ dcCalls[j][1].op = "send"
        /\ handlers[j].pc = "done"

\* C16: the events of an answer are emitted in the order of the answer,
\* which is that of rising ids, each with the events of its own update and
\* all of them in the step that issues the next fetch; no other step emits.
C16_InBatchOrder ==
    [][/\ emitLog' = emitLog \o Ascending({i \in observed' \ observed :
                                              EventsOf(received'[i]) # <<>>})
       /\ \A i \in observed' \ observed :
            /\ emitted[i] = <<>>
            /\ emitted'[i] = [k \in 1..Len(EventsOf(received'[i])) |->
                                EventsOf(received'[i])[k].event]
       /\ observed' # observed => (fetches' = 1 /\ reqOffset' = Max(observed' \ observed) + 1)]_vars

\* Updates 0 and 2 were dispatched, in this order.
C16_Witness ==
    /\ observed = {0, 2}
    /\ emitLog = <<0, 2>>
    /\ emitted[0] # <<>>
    /\ emitted[2] # <<>>

\* The source message of the text handler of update i.
SourceMessage(i) == <<handlers[i].message.chat, handlers[i].message.message_id>>

\* C19: every update is dispatched at most once, and the message map gets at
\* most one insert for a source message id: two inserts under one key come
\* from the same source message.
C19_AtMostOnce ==
    /\ \A i \in UpdateIds :
          /\ Len(emitted[i]) <= 1
          /\ Cardinality({k \in 1..Len(emitLog) : emitLog[k] = i}) <= 1
          /\ Len(mapInserts[i]) <= 1
    /\ \A i, j \in UpdateIds :
          (/\ mapInserts[i] # <<>>
           /\ mapInserts[j] # <<>>
           /\ mapInserts[i][1][1] = mapInserts[j][1][1])
          => SourceMessage(i) = SourceMessage(j)

\* C20: at most one getUpdates is outstanding; the steady-state loop has
\* issued none while clearing goes on; the cursor and the offset of the
\* outstanding fetch change only in the step that takes up the one
\* outstanding fetch, which dispatches the whole answer and issues the next.
C20_SinglePollingChain ==
    /\ [](fetches <= 1)
    /\ [](fetches = 1 <=> phase \in {"clearing", "polling"})
    /\ [](phase = "clearing" => (firstSteadyReq = -1 /\ observed = {}))
    /\ [][(offset' # offset \/ reqOffset' # reqOffset \/ observed' # observed) =>
            /\ fetches = 1
            /\ fetches' = 1
            /\ \A i \in observed' \ observed :
                  Len(emitted'[i]) = Len(EventsOf(received'[i]))]_vars

\* Clearing took updates, then the steady-state loop took one, then a fetch
\* failed: one fetch is outstanding.
C20_Witness ==
    /\ skipOldMessages
    /\ cleared # {}
    /\ observed # {}
    /\ lastFailed
    /\ phase = "polling"
    /\ fetches = 1

\* C11: a failure at whatever step of a file relay ends the relay call of
\* that job with an error: no failed step leaves the call pending for good,
\* and no error of the job goes past the handler.
C11_FailureIsolation ==
    \A i \in UpdateIds :
        /\ handlers[i].pc # "hung"
        /\ <<i, "stream error">> \notin escaped

\* c1 ++ ... ++ cn
RECURSIVE JoinedChunks(_)
JoinedChunks(chunks) ==
    IF chunks = <<>> THEN <<>>
    ELSE JoinedChunks(SubSeq(chunks, 1, Len(chunks) - 1)) \o chunks[Len(chunks)]

\* C12: a file relay makes at most one upload call, none before the stream
\* ended after its last chunk and one from then on, and the blob of the call
\* is the chunks of the file joined in the order they came.
C12_ContentFidelity ==
    \A i \in UpdateIds :
        /\ Len(dcCalls[i]) <= 1
        /\ handlers[i].pc \in {"awaitReady", "awaitGetFile", "awaitStream", "streaming", "hung"}
              => dcCalls[i] = <<>>
        /\ handlers[i].pc \in {"awaitUpload", "done"} => Len(dcCalls[i]) = 1
        /\ dcCalls[i] # <<>> =>
              /\ handlers[i].stream = <<>>
              /\ dcCalls[i][1] = Call("sendFile", ChannelOf(handlers[i].message.chat), 0,
                                      JoinedChunks(handlers[i].file))

\* Two downloads side by side: one file of two chunks has been uploaded
\* whole while the first chunk of another file has come.
C12_Witness ==
    \E i, j \in UpdateIds :
        /\ handlers[i].pc = "awaitUpload"
        /\ handlers[i].file = << <<"A", "B">>, <<"C", "D">> >>
        /\ dcCalls[i][1].content = <<"A", "B", "C", "D">>
        /\ handlers[j].pc = "streaming"
        /\ handlers[j].file = << <<"C", "D">>, <<"A", "B">> >>
        /\ handlers[j].buffers = << <<"C", "D">> >>

\* C13: no error of the handling of a message gets out of the handlers as an
\* uncaught error or an unhandled rejection, and the poller's fetch stays
\* outstanding.
C13_ErrorContainment ==
    /\ escaped = {}
    /\ phase = "polling" => fetches = 1

====
